---- MODULE Spec2Model ----
(***************************************************************************)
(* Model of the retry-loop guard ToolExecutionValidator                    *)
(* (packages/core/src/generated/build-info.ts, lines 57-212): the          *)
(* fingerprint function generateToolKey, the failure record store          *)
(* recentFailures, the validation engine and the diagnostic                *)
(* reconciliation pass.                                                    *)
(*                                                                         *)
(* JSON values are tagged records; an object is the sequence of its        *)
(* <<key, value>> members in insertion order, so that property order is    *)
(* something the serializer can get wrong.  Keys of the store are the      *)
(* strings generateToolKey builds.  Time is in scaled units: Date.now()    *)
(* is the variable now, advanced by Tick; one call reads one instant.      *)
(***************************************************************************)
EXTENDS Integers, Sequences, FiniteSets, TLC

\* ------------------------------------------------------------------------
\* JSON values
\* ------------------------------------------------------------------------
Num(n) == [tag |-> "num", n |-> n]
Str(s) == [tag |-> "str", s |-> s]
Arr(items) == [tag |-> "arr", items |-> items]
Obj(kv) == [tag |-> "obj", kv |-> kv]
Undef == [tag |-> "undef"]

\* value[key] of a JavaScript object; undefined when the property is absent
RECURSIVE GetProp(_, _)
GetProp(kv, key) ==
    IF kv = <<>> THEN Undef
    ELSE IF Head(kv)[1] = key THEN Head(kv)[2]
    ELSE GetProp(Tail(kv), key)

\* The property names the model uses, in the order of Array.prototype.sort()
\* (UTF-16 code units: digits before letters).
KeyOrder == <<"0", "1", "a", "b", "file", "old", "path", "x">>

SeqToSet(s) == {s[i] : i \in 1..Len(s)}

\* Object.keys(value): own enumerable property names, in insertion order;
\* the indices of an array; none for a number.
OwnKeys(v) ==
    CASE v.tag = "obj" -> [i \in 1..Len(v.kv) |-> v.kv[i][1]]
      [] v.tag = "arr" -> [i \in 1..Len(v.items) |-> ToString(i - 1)]
      [] OTHER -> <<>>

InS(k, S) == k \in S

\* Mutation of SortedKeys: the property list is left in insertion order.
UnsortedKeys(v) == OwnKeys(v)

\* Object.keys(params).sort()
SortedKeys(v) == SelectSeq(KeyOrder, LAMBDA k : InS(k, SeqToSet(OwnKeys(v))))

RECURSIVE Join(_)
Join(parts) ==
    IF parts = <<>> THEN ""
    ELSE IF Len(parts) = 1 THEN parts[1]
    ELSE parts[1] \o "," \o Join(Tail(parts))

\* JSON.stringify(value, allow) with an array replacer: allow is the property
\* list applied to EVERY object of the value, nested ones included; members
\* are written in the order of allow; a member whose value is undefined is
\* left out; an undefined array element is written null.
RECURSIVE Serialize(_, _)
RECURSIVE Members(_, _, _)
RECURSIVE Elements(_, _)
Members(kv, allow, rest) ==
    IF rest = <<>> THEN <<>>
    ELSE LET val == GetProp(kv, Head(rest))
         IN  IF val.tag = "undef"
             THEN Members(kv, allow, Tail(rest))
             ELSE <<ToString(Head(rest)) \o ":" \o Serialize(val, allow)>>
                  \o Members(kv, allow, Tail(rest))
Elements(items, allow) ==
    IF items = <<>> THEN <<>>
    ELSE <<IF Head(items).tag = "undef" THEN "null"
           ELSE Serialize(Head(items), allow)>>
         \o Elements(Tail(items), allow)
Serialize(v, allow) ==
    CASE v.tag = "num" -> ToString(v.n)
      [] v.tag = "str" -> ToString(v.s)
      [] v.tag = "arr" -> "[" \o Join(Elements(v.items, allow)) \o "]"
      [] v.tag = "obj" -> "{" \o Join(Members(v.kv, allow, allow)) \o "}"
      [] OTHER -> "undefined"

\* Object.keys(undefined) throws a TypeError before anything is serialized.
KeyThrows(params) == params.tag = "undef"

\* generateToolKey(toolName, params), defined when KeyThrows(params) is false
generateToolKey(toolName, params) ==
    toolName \o ":" \o Serialize(params, SortedKeys(params))

\* ------------------------------------------------------------------------
\* Inputs of the state machine
\* ------------------------------------------------------------------------
MaxTime == 3

\* (failureTimeoutMs, maxFailureAge) pairs handed to the constructor, in
\* scaled time units: a cooldown shorter than the retention window, as with
\* the defaults 30000 and 300000, and a retention window that ends inside
\* the cooldown.
Configs == {[failureTimeoutMs |-> 1, maxFailureAge |-> 2],
            [failureTimeoutMs |-> 2, maxFailureAge |-> 0]}

ParamsA1 == Obj(<< <<"file", Str("a.txt")>>, <<"old", Str("x")>> >>)
ParamsA2 == Obj(<< <<"old", Str("x")>>, <<"file", Str("a.txt")>> >>)
ParamsN1 == Obj(<< <<"file", Obj(<< <<"path", Str("a.txt")>> >>)>> >>)
ParamsN2 == Obj(<< <<"file", Obj(<< <<"path", Str("b.txt")>> >>)>> >>)

Call(name, params) == [name |-> name, params |-> params]

\* The invocations the scheduler makes: an edit, an edit with a nested
\* parameter object, and a call without parameters.
Calls == {Call("replace", ParamsA1), Call("replace", ParamsN1),
          Call("replace", Undef)}

\* The invocations whose fingerprints are compared pairwise.
KeyTools == {"replace", "write"}

KeyParams ==
    {Undef,
     Obj(<<>>),
     Obj(<< <<"a", Num(1)>> >>),
     Obj(<< <<"a", Num(2)>> >>),
     Obj(<< <<"a", Str("1")>> >>),
     Obj(<< <<"a", Num(1)>>, <<"b", Num(2)>> >>),
     Obj(<< <<"b", Num(2)>>, <<"a", Num(1)>> >>),
     Obj(<< <<"a", Arr(<<Num(1), Num(2)>>)>> >>),
     Obj(<< <<"a", Arr(<<Num(2), Num(1)>>)>> >>),
     Obj(<< <<"a", Obj(<< <<"x", Num(1)>> >>)>> >>),
     Obj(<< <<"a", Obj(<< <<"x", Num(2)>> >>)>> >>),
     Obj(<< <<"a", Obj(<< <<"x", Num(1)>>, <<"b", Num(1)>> >>)>> >>),
     Obj(<< <<"a", Obj(<< <<"b", Num(1)>>, <<"a", Num(2)>> >>)>>, <<"b", Num(0)>> >>),
     Obj(<< <<"b", Num(0)>>, <<"a", Obj(<< <<"a", Num(2)>>, <<"b", Num(1)>> >>)>> >>),
     Obj(<< <<"a", Obj(<< <<"a", Arr(<<Num(1), Num(2)>>)>> >>)>> >>),
     Obj(<< <<"a", Obj(<< <<"a", Arr(<<Num(2), Num(1)>>)>> >>)>> >>),
     ParamsA1, ParamsA2, ParamsN1, ParamsN2}

KeyCalls == {Call(t, p) : t \in KeyTools, p \in KeyParams}

\* The same edit issued through two tools, for the reconciliation pass.
DiagCalls == {Call("replace", ParamsA1), Call("write", ParamsA1)}

\* generateToolKey is pure: its values on the invocations of the model are
\* computed once and looked up by the operations.
KeyTable ==
    [c \in {d \in Calls \cup KeyCalls \cup DiagCalls : ~KeyThrows(d.params)} |->
       generateToolKey(c.name, c.params)]

\* generateToolKey on the invocation c
KeyOf(c) == KeyTable[c]

ErrorInfo(code, filePath, requiredActions) ==
    [code |-> code, context |-> [filePath |-> filePath],
     requiredActions |-> requiredActions]

ErrorInfos == {ErrorInfo("EDIT_TEXT_NOT_FOUND", "a.txt", <<"read file first">>),
               ErrorInfo("not_found", "a.txt", <<"read file first">>),
               ErrorInfo("EDIT_MULTIPLE_MATCHES", "b.txt", <<>>)}

TraceEntry(name, params, success) ==
    [name |-> name, params |-> params, success |-> success]

ReadParams(path) == Obj(<< <<"file_path", Str(path)>> >>)

TraceEntries ==
    {TraceEntry("read_file", ReadParams("a.txt"), TRUE),
     TraceEntry("read_file", ReadParams("a.txt"), FALSE),
     TraceEntry("read_file", ReadParams(""), TRUE),
     TraceEntry("read_file", Undef, TRUE),
     TraceEntry("list_directory", ReadParams("a.txt"), TRUE),
     TraceEntry("replace", ReadParams("a.txt"), TRUE)}

\* The traces handed to the reconciliation pass: none, one entry, or a
\* successful read of a.txt after another entry.
Traces ==
    {<<>>} \cup {<<e>> : e \in TraceEntries}
           \cup {<<e, TraceEntry("read_file", ReadParams("a.txt"), TRUE)>> :
                   e \in {TraceEntry("read_file", ReadParams("a.txt"), FALSE),
                          TraceEntry("list_directory", ReadParams("a.txt"), TRUE)}}

\* The traces of the reconciliation pass on its own: those above and the
\* other diagnostic tools run successfully on a.txt.
DiagTraces ==
    Traces \cup {<<TraceEntry("grep", ReadParams("a.txt"), TRUE)>>,
                 <<TraceEntry("glob", ReadParams("a.txt"), TRUE)>>,
                 <<TraceEntry("grep", ReadParams("a.txt"), TRUE),
                   TraceEntry("read_file", ReadParams("a.txt"), FALSE)>>}

\* ------------------------------------------------------------------------
\* State
\* ------------------------------------------------------------------------
VARIABLES recentFailures, failureTimeoutMs, maxFailureAge, now, result, probe,
          scheduler

vars == <<recentFailures, failureTimeoutMs, maxFailureAge, now, result, probe,
          scheduler>>

\* The hosting scheduler's own state; the guard neither reads nor writes it.
NoScheduler == [mode |-> "none"]

EmptyMap == [k \in {} |-> TRUE]

\* Map.prototype.set / delete on the store
MapSet(m, key, val) == [k \in DOMAIN m \cup {key} |-> IF k = key THEN val ELSE m[k]]
\* Mutation of MapDelete: when the key is present the whole store is emptied.
MapDeleteAll(m, key) == [k \in (IF key \in DOMAIN m THEN {} ELSE DOMAIN m) |-> m[k]]
MapDelete(m, key) == [k \in DOMAIN m \ {key} |-> m[k]]

\* Outcome of the last call: what was called, with what, whether it threw,
\* the value it returned, and what it removed from the store (the number of
\* records its cleanup pass purged, or whether Map.delete found a record;
\* the caller does not see this last part).
Outcome(op, arg, threw, ret, effect) ==
    [op |-> op, arg |-> arg, threw |-> threw, ret |-> ret, effect |-> effect]
Void == [void |-> TRUE]
Purged(m, cleaned) == [purged |-> Cardinality(DOMAIN m \ DOMAIN cleaned)]
\* ... or the number of records a reconciliation pass newly marked addressed
Marked(m, after) ==
    [marked |-> Cardinality({k \in DOMAIN m : ~m[k].wasAddressed /\ after[k].wasAddressed})]
\* ... or what a recordFailure found under the key it wrote
Replaced(m, key) ==
    [replaced |-> IF key \notin DOMAIN m THEN "none"
                  ELSE IF m[key].wasAddressed THEN "addressed"
                  ELSE IF now - m[key].timestamp >= failureTimeoutMs THEN "cooled"
                  ELSE "blocking"]

\* Mutation of cleanupOldFailures: records are dropped when the cooldown ends.
cleanupAtCooldown(m, t) ==
    [k \in {j \in DOMAIN m : ~(t - m[j].timestamp >= failureTimeoutMs)} |-> m[k]]

\* Mutation of cleanupOldFailures: addressed records are never purged.
cleanupSkipsAddressed(m, t) ==
    [k \in {j \in DOMAIN m : m[j].wasAddressed
                                \/ ~(t - m[j].timestamp > maxFailureAge)} |-> m[k]]

\* cleanupOldFailures at time t
cleanupOldFailures(m, t) ==
    [k \in {j \in DOMAIN m : ~(t - m[j].timestamp > maxFailureAge)} |-> m[k]]

\* Math.round(ms / 1000) for ms >= 0
RoundSeconds(ms) == (ms + 500) \div 1000

\* Mutation of Decide: the cooldown boundary is inclusive.
DecideInclusive(m, key, t) ==
    IF key \notin DOMAIN m THEN [allowed |-> TRUE]
    ELSE IF t - m[key].timestamp <= failureTimeoutMs /\ ~m[key].wasAddressed
         THEN [allowed |-> FALSE,
               reasonSeconds |-> RoundSeconds(t - m[key].timestamp),
               requiredActions |-> m[key].requiredActions,
               previousFailure |-> m[key]]
         ELSE [allowed |-> TRUE]

\* Mutation of Decide: wasAddressed is not consulted.
DecideIgnoresAddressed(m, key, t) ==
    IF key \notin DOMAIN m THEN [allowed |-> TRUE]
    ELSE IF t - m[key].timestamp < failureTimeoutMs
         THEN [allowed |-> FALSE,
               reasonSeconds |-> RoundSeconds(t - m[key].timestamp),
               requiredActions |-> m[key].requiredActions,
               previousFailure |-> m[key]]
         ELSE [allowed |-> TRUE]

\* Mutation of Decide: an unaddressed record blocks whatever its age.
DecideNoExpiry(m, key, t) ==
    IF key \notin DOMAIN m THEN [allowed |-> TRUE]
    ELSE IF ~m[key].wasAddressed
         THEN [allowed |-> FALSE,
               reasonSeconds |-> RoundSeconds(t - m[key].timestamp),
               requiredActions |-> m[key].requiredActions,
               previousFailure |-> m[key]]
         ELSE [allowed |-> TRUE]

\* The decision of validateBeforeExecution once the key is known, on the
\* store m (already cleaned) at time t.
Decide(m, key, t) ==
    IF key \notin DOMAIN m THEN [allowed |-> TRUE]
    ELSE LET recentFailure == m[key]
             timeSinceFailure == t - recentFailure.timestamp
         IN  IF timeSinceFailure < failureTimeoutMs /\ ~recentFailure.wasAddressed
             THEN [allowed |-> FALSE,
                   reasonSeconds |-> RoundSeconds(timeSinceFailure),
                   requiredActions |-> recentFailure.requiredActions,
                   previousFailure |-> recentFailure]
             ELSE [allowed |-> TRUE]

Init ==
    /\ recentFailures = EmptyMap
    /\ \E c \in Configs : /\ failureTimeoutMs = c.failureTimeoutMs
                          /\ maxFailureAge = c.maxFailureAge
    /\ now = 0
    /\ result = Outcome("new", Void, FALSE, Void, Void)
    /\ probe = [stage |-> "idle"]
    /\ scheduler = NoScheduler

\* Date.now() moves on between calls.
Tick ==
    /\ now < MaxTime
    /\ now' = now + 1
    /\ UNCHANGED <<recentFailures, failureTimeoutMs, maxFailureAge, result, probe>>

validateBeforeExecution(c) ==
    LET cleaned == cleanupOldFailures(recentFailures, now)
    IN  /\ recentFailures' = cleaned
        /\ result' = IF KeyThrows(c.params)
                     THEN Outcome("validateBeforeExecution", c, TRUE, Void,
                                  Purged(recentFailures, cleaned))
                     ELSE Outcome("validateBeforeExecution", c, FALSE,
                                  Decide(cleaned, KeyOf(c), now),
                                  Purged(recentFailures, cleaned))
        /\ UNCHANGED <<failureTimeoutMs, maxFailureAge, now, probe>>

\* Mutation of recordFailure: an existing record keeps its wasAddressed.
recordFailureKeepsFlag(c, errorInfo) ==
    /\ IF KeyThrows(c.params)
       THEN /\ recentFailures' = recentFailures
            /\ result' = Outcome("recordFailure", c, TRUE, Void, Void)
       ELSE /\ recentFailures' =
                  MapSet(recentFailures, KeyOf(c),
                         [timestamp |-> now,
                          errorInfo |-> errorInfo,
                          requiredActions |-> errorInfo.requiredActions,
                          wasAddressed |->
                             /\ KeyOf(c) \in DOMAIN recentFailures
                             /\ recentFailures[KeyOf(c)].wasAddressed])
            /\ result' = Outcome("recordFailure", c, FALSE, Void,
                                  Replaced(recentFailures, KeyOf(c)))
    /\ UNCHANGED <<failureTimeoutMs, maxFailureAge, now, probe>>

recordFailure(c, errorInfo) ==
    /\ IF KeyThrows(c.params)
       THEN /\ recentFailures' = recentFailures
            /\ result' = Outcome("recordFailure", c, TRUE, Void, Void)
       ELSE /\ recentFailures' =
                  MapSet(recentFailures, KeyOf(c),
                         [timestamp |-> now,
                          errorInfo |-> errorInfo,
                          requiredActions |-> errorInfo.requiredActions,
                          wasAddressed |-> FALSE])
            /\ result' = Outcome("recordFailure", c, FALSE, Void,
                                  Replaced(recentFailures, KeyOf(c)))
    /\ UNCHANGED <<failureTimeoutMs, maxFailureAge, now, probe>>

\* Mutation of recordSuccess: the record is kept.
recordSuccessKeeps(c) ==
    /\ recentFailures' = recentFailures
    /\ result' = Outcome("recordSuccess", c, KeyThrows(c.params), Void,
                          IF KeyThrows(c.params) THEN Void
                          ELSE [deleted |-> KeyOf(c)
                                              \in DOMAIN recentFailures])
    /\ UNCHANGED <<failureTimeoutMs, maxFailureAge, now, probe>>

recordSuccess(c) ==
    /\ IF KeyThrows(c.params)
       THEN /\ recentFailures' = recentFailures
            /\ result' = Outcome("recordSuccess", c, TRUE, Void, Void)
       ELSE /\ recentFailures' =
                  MapDelete(recentFailures, KeyOf(c))
            /\ result' = Outcome("recordSuccess", c, FALSE, Void,
                                  [deleted |-> KeyOf(c)
                                                  \in DOMAIN recentFailures])
    /\ UNCHANGED <<failureTimeoutMs, maxFailureAge, now, probe>>

\* Mutation of markFailureAddressed: the record is written without the
\* test for its presence, which throws on an absent record.
markFailureAddressedUnguarded(c) ==
    /\ IF KeyThrows(c.params) \/ KeyOf(c) \notin DOMAIN recentFailures
       THEN /\ recentFailures' = recentFailures
            /\ result' = Outcome("markFailureAddressed", c, TRUE, Void, Void)
       ELSE /\ recentFailures' =
                  MapSet(recentFailures, KeyOf(c),
                         [recentFailures[KeyOf(c)]
                            EXCEPT !.wasAddressed = TRUE])
            /\ result' = Outcome("markFailureAddressed", c, FALSE, Void, Void)
    /\ UNCHANGED <<failureTimeoutMs, maxFailureAge, now, probe>>

markFailureAddressed(c) ==
    /\ IF KeyThrows(c.params)
       THEN /\ recentFailures' = recentFailures
            /\ result' = Outcome("markFailureAddressed", c, TRUE, Void, Void)
       ELSE LET key == KeyOf(c)
            IN  /\ recentFailures' =
                      IF key \in DOMAIN recentFailures
                      THEN MapSet(recentFailures, key,
                                  [recentFailures[key] EXCEPT !.wasAddressed = TRUE])
                      ELSE recentFailures
                /\ result' = Outcome("markFailureAddressed", c, FALSE, Void, Void)
    /\ UNCHANGED <<failureTimeoutMs, maxFailureAge, now, probe>>

\* The parameter strings of the invocations, the possible tails of a key.
ParamStrings ==
    {Serialize(c.params, SortedKeys(c.params)) : c \in {d \in Calls : ~KeyThrows(d.params)}}

\* key.startsWith(prefix), over the keys the store can hold
StartsWith(key, prefix) == \E tail \in ParamStrings : key = prefix \o tail

diagnosticTools == {"read_file", "list_directory", "grep", "glob"}

\* (diagnosticCall.params as {file_path?: string})?.file_path
FilePathOf(params) ==
    IF params.tag = "obj" THEN GetProp(params.kv, "file_path") ELSE Undef

\* JavaScript truthiness of a value used as a condition
Truthy(v) ==
    CASE v.tag = "undef" -> FALSE
      [] v.tag = "str" -> v.s # ""
      [] v.tag = "num" -> v.n # 0
      [] OTHER -> TRUE

\* Mutation of SamePath: the path of the failure is not compared.
SamePathIgnored(errorInfo, filePath) == filePath.tag = "str"

\* failure.errorInfo.context?.filePath === filePath
SamePath(errorInfo, filePath) ==
    filePath.tag = "str" /\ errorInfo.context.filePath = filePath.s

\* Mutation of Related: the tool of the failed call is not tested.
RelatedAnyTool(key, failure, filePath) ==
    /\ SamePath(failure.errorInfo, filePath)
    /\ (failure.errorInfo.code = "EDIT_TEXT_NOT_FOUND"
        \/ failure.errorInfo.code = "EDIT_MULTIPLE_MATCHES")

\* The condition under which markRelatedFailuresAddressed marks a record.
Related(key, failure, filePath) ==
    /\ StartsWith(key, "replace:")
    /\ SamePath(failure.errorInfo, filePath)
    /\ (failure.errorInfo.code = "EDIT_TEXT_NOT_FOUND"
        \/ failure.errorInfo.code = "EDIT_MULTIPLE_MATCHES")

\* Mutation of markRelatedFailuresAddressed: the matched record is stamped
\* with the time of the pass.
markRelatedRestamps(m, diagnosticCall) ==
    IF diagnosticCall.name = "read_file"
    THEN LET filePath == FilePathOf(diagnosticCall.params)
         IN  IF Truthy(filePath)
             THEN [k \in DOMAIN m |->
                     IF Related(k, m[k], filePath)
                     THEN [m[k] EXCEPT !.wasAddressed = TRUE, !.timestamp = now]
                     ELSE m[k]]
             ELSE m
    ELSE m

\* Mutation of markRelatedFailuresAddressed: wasAddressed is assigned the
\* outcome of the test instead of being set when the test holds.
markRelatedAssignsTest(m, diagnosticCall) ==
    IF diagnosticCall.name = "read_file"
    THEN LET filePath == FilePathOf(diagnosticCall.params)
         IN  IF Truthy(filePath)
             THEN [k \in DOMAIN m |->
                     [m[k] EXCEPT !.wasAddressed = Related(k, m[k], filePath)]]
             ELSE m
    ELSE m

markRelatedFailuresAddressed(m, diagnosticCall) ==
    IF diagnosticCall.name = "read_file"
    THEN LET filePath == FilePathOf(diagnosticCall.params)
         IN  IF Truthy(filePath)
             THEN [k \in DOMAIN m |->
                     IF Related(k, m[k], filePath)
                     THEN [m[k] EXCEPT !.wasAddressed = TRUE]
                     ELSE m[k]]
             ELSE m
    ELSE m

\* The loop of detectDiagnosticActions over the trace, first entry first.
RECURSIVE DetectLoop(_, _)
DetectLoop(m, recentToolCalls) ==
    IF recentToolCalls = <<>> THEN m
    ELSE LET call == Head(recentToolCalls)
             after == IF call.name \in diagnosticTools /\ call.success
                      THEN markRelatedFailuresAddressed(m, call)
                      ELSE m
         IN  DetectLoop(after, Tail(recentToolCalls))

detectDiagnosticActions(recentToolCalls) ==
    /\ recentFailures' = DetectLoop(recentFailures, recentToolCalls)
    /\ result' = Outcome("detectDiagnosticActions", recentToolCalls, FALSE, Void,
                          Marked(recentFailures,
                                 DetectLoop(recentFailures, recentToolCalls)))
    /\ UNCHANGED <<failureTimeoutMs, maxFailureAge, now, probe>>

\* Mutation of Stats: every record inside its cooldown counts as active.
StatsCountsAddressed(m, t) ==
    [totalFailures |-> Cardinality(DOMAIN m),
     activeFailures |->
        Cardinality({k \in DOMAIN m : (t - m[k].timestamp) < failureTimeoutMs})]

\* The counts getFailureStats returns for the cleaned store m at time t.
Stats(m, t) ==
    [totalFailures |-> Cardinality(DOMAIN m),
     activeFailures |->
        Cardinality({k \in DOMAIN m :
                       ~m[k].wasAddressed /\ (t - m[k].timestamp) < failureTimeoutMs})]

getFailureStats ==
    LET cleaned == cleanupOldFailures(recentFailures, now)
    IN  /\ recentFailures' = cleaned
        /\ result' = Outcome("getFailureStats", Void, FALSE, Stats(cleaned, now),
                             Purged(recentFailures, cleaned))
        /\ UNCHANGED <<failureTimeoutMs, maxFailureAge, now, probe>>

clearAll ==
    /\ recentFailures' = EmptyMap
    /\ result' = Outcome("clearAll", Void, FALSE, Void, Void)
    /\ UNCHANGED <<failureTimeoutMs, maxFailureAge, now, probe>>

Next ==
    \/ Tick /\ UNCHANGED scheduler
    \/ \E c \in Calls : validateBeforeExecution(c) /\ UNCHANGED scheduler
    \/ \E c \in Calls, e \in ErrorInfos : recordFailure(c, e) /\ UNCHANGED scheduler
    \/ \E c \in Calls : recordSuccess(c) /\ UNCHANGED scheduler
    \/ \E c \in Calls : markFailureAddressed(c) /\ UNCHANGED scheduler
    \/ \E tr \in Traces : detectDiagnosticActions(tr) /\ UNCHANGED scheduler
    \/ getFailureStats /\ UNCHANGED scheduler
    \/ clearAll /\ UNCHANGED scheduler

Spec == Init /\ [][Next]_vars

\* The invocations for which generateToolKey returns a key
KeyedCalls == {c \in Calls : ~KeyThrows(c.params)}

\* The guard called with invocations that have a fingerprint only.
NextKeyed ==
    \/ Tick /\ UNCHANGED scheduler
    \/ \E c \in KeyedCalls : validateBeforeExecution(c) /\ UNCHANGED scheduler
    \/ \E c \in KeyedCalls, e \in ErrorInfos : recordFailure(c, e) /\ UNCHANGED scheduler
    \/ \E c \in KeyedCalls : recordSuccess(c) /\ UNCHANGED scheduler
    \/ \E c \in KeyedCalls : markFailureAddressed(c) /\ UNCHANGED scheduler
    \/ \E tr \in Traces : detectDiagnosticActions(tr) /\ UNCHANGED scheduler
    \/ getFailureStats /\ UNCHANGED scheduler
    \/ clearAll /\ UNCHANGED scheduler

SpecKeyed == Init /\ [][NextKeyed]_vars

\* ------------------------------------------------------------------------
\* The fingerprint function on pairs of invocations
\* ------------------------------------------------------------------------
\* What a call of generateToolKey produces: a key, or a TypeError.
KeyOutcome(c) ==
    IF KeyThrows(c.params) THEN [threw |-> TRUE]
    ELSE [threw |-> FALSE, key |-> KeyOf(c)]

InitKey ==
    /\ recentFailures = EmptyMap
    /\ \E c \in Configs : /\ failureTimeoutMs = c.failureTimeoutMs
                          /\ maxFailureAge = c.maxFailureAge
    /\ now = 0
    /\ result = Outcome("new", Void, FALSE, Void, Void)
    /\ \E a \in KeyCalls, b \in KeyCalls : probe = [stage |-> "input", a |-> a, b |-> b]
    /\ scheduler = NoScheduler

\* generateToolKey applied to both invocations of the pair
ProbeKeys ==
    /\ probe.stage = "input"
    /\ probe' = [stage |-> "done", a |-> probe.a, b |-> probe.b,
                 ka |-> KeyOutcome(probe.a), kb |-> KeyOutcome(probe.b)]
    /\ UNCHANGED <<recentFailures, failureTimeoutMs, maxFailureAge, now, result>>

\* The first invocation of the pair fails and the second is validated, any
\* number of times, with no time passing.
NextKey ==
    \/ ProbeKeys /\ UNCHANGED scheduler
    \/ /\ probe.stage = "done"
       /\ \E e \in ErrorInfos : recordFailure(probe.a, e)
       /\ UNCHANGED scheduler
    \/ /\ probe.stage = "done"
       /\ validateBeforeExecution(probe.b)
       /\ UNCHANGED scheduler

SpecKey == InitKey /\ [][NextKey]_vars

\* ------------------------------------------------------------------------
\* Concurrent dispatches of one invocation
\* ------------------------------------------------------------------------
\* Two dispatches of the same failing call, each running
\* validateBeforeExecution -> execute -> recordFailure; the calls of the guard
\* are synchronous, the dispatches interleave between them.
Dispatches == {1, 2}
DispatchCall == Call("replace", ParamsA1)
DispatchError == ErrorInfo("EDIT_TEXT_NOT_FOUND", "a.txt", <<"read file first">>)

InitConc ==
    /\ recentFailures = EmptyMap
    /\ \E c \in Configs : /\ failureTimeoutMs = c.failureTimeoutMs
                          /\ maxFailureAge = c.maxFailureAge
    /\ now = 0
    /\ result = Outcome("new", Void, FALSE, Void, Void)
    /\ probe = [stage |-> "idle"]
    /\ scheduler = [mode |-> "dispatch",
                    pc |-> [d \in Dispatches |-> "ready"],
                    retried |-> [d \in Dispatches |-> FALSE]]

\* The dispatch asks the guard and is admitted or blocked.
DispatchValidate(d) ==
    /\ scheduler.pc[d] = "ready"
    /\ validateBeforeExecution(DispatchCall)
    /\ scheduler' = [scheduler EXCEPT !.pc[d] =
                       IF result'.ret.allowed THEN "admitted" ELSE "blocked"]

\* The admitted call executes, fails, and its failure is reported.
DispatchFail(d) ==
    /\ scheduler.pc[d] = "admitted"
    /\ recordFailure(DispatchCall, DispatchError)
    /\ scheduler' = [scheduler EXCEPT !.pc[d] = "failed"]

\* The decision-maker reissues the identical call.
DispatchRetry(d) ==
    /\ scheduler.pc[d] \in {"failed", "blocked"}
    /\ scheduler' = [scheduler EXCEPT !.pc[d] = "ready", !.retried[d] = TRUE]
    /\ UNCHANGED <<recentFailures, failureTimeoutMs, maxFailureAge, now, result, probe>>

NextConc ==
    \/ Tick /\ UNCHANGED scheduler
    \/ \E d \in Dispatches : DispatchValidate(d)
    \/ \E d \in Dispatches : DispatchFail(d)
    \/ \E d \in Dispatches : DispatchRetry(d)

SpecConc == InitConc /\ [][NextConc]_vars

\* ------------------------------------------------------------------------
\* One invocation under a clock that keeps advancing
\* ------------------------------------------------------------------------
LiveCall == Call("replace", ParamsA1)

\* A failure is recorded only while the clock can still run through the
\* cooldown that follows it.
recordFailureInTime ==
    /\ now + failureTimeoutMs <= MaxTime
    /\ \E e \in ErrorInfos : recordFailure(LiveCall, e)

NextLive ==
    \/ Tick /\ UNCHANGED scheduler
    \/ recordFailureInTime /\ UNCHANGED scheduler
    \/ validateBeforeExecution(LiveCall) /\ UNCHANGED scheduler
    \/ getFailureStats /\ UNCHANGED scheduler

\* Date.now() advances whatever the guard's callers do.
SpecLive == Init /\ [][NextLive]_vars /\ WF_vars(Tick /\ UNCHANGED scheduler)

\* ------------------------------------------------------------------------
\* The reconciliation pass over failures of two tools
\* ------------------------------------------------------------------------
NextDiag ==
    \/ \E c \in DiagCalls, e \in ErrorInfos : recordFailure(c, e) /\ UNCHANGED scheduler
    \/ \E c \in DiagCalls : markFailureAddressed(c) /\ UNCHANGED scheduler
    \/ \E tr \in DiagTraces : detectDiagnosticActions(tr) /\ UNCHANGED scheduler

SpecDiag == Init /\ [][NextDiag]_vars

\* ------------------------------------------------------------------------
\* The scheduler's trace of executed calls
\* ------------------------------------------------------------------------
\* The scheduler appends every call it has executed to a trace and hands
\* the trace to detectDiagnosticActions; an entry carries name, params and
\* success, and no time.  readAfter tells whether a.txt was read successfully
\* since the last failure of the edit was recorded.
MaxLog == 2
TraceCall == Call("replace", ParamsA1)
TraceError == ErrorInfo("EDIT_TEXT_NOT_FOUND", "a.txt", <<"read file first">>)

InitTrace ==
    /\ recentFailures = EmptyMap
    /\ \E c \in Configs : /\ failureTimeoutMs = c.failureTimeoutMs
                          /\ maxFailureAge = c.maxFailureAge
    /\ now = 0
    /\ result = Outcome("new", Void, FALSE, Void, Void)
    /\ probe = [stage |-> "idle"]
    /\ scheduler = [mode |-> "trace", log |-> <<>>, readAfter |-> FALSE]

\* read_file of a.txt is executed and succeeds.
ExecuteRead ==
    /\ Len(scheduler.log) < MaxLog
    /\ scheduler' = [scheduler EXCEPT
                       !.log = Append(@, TraceEntry("read_file", ReadParams("a.txt"), TRUE)),
                       !.readAfter = KeyOf(TraceCall) \in DOMAIN recentFailures]
    /\ UNCHANGED <<recentFailures, failureTimeoutMs, maxFailureAge, now, result, probe>>

\* The edit of a.txt is executed, fails, and its failure is recorded.
ExecuteReplaceFails ==
    /\ Len(scheduler.log) < MaxLog
    /\ recordFailure(TraceCall, TraceError)
    /\ scheduler' = [scheduler EXCEPT
                       !.log = Append(@, TraceEntry("replace", ParamsA1, FALSE)),
                       !.readAfter = FALSE]

\* The trace so far goes through the reconciliation pass.
Reconcile ==
    /\ detectDiagnosticActions(scheduler.log)
    /\ UNCHANGED scheduler

\* The identical edit is asked for again.
RetryValidate ==
    /\ validateBeforeExecution(TraceCall)
    /\ UNCHANGED scheduler

NextTrace ==
    \/ Tick /\ UNCHANGED scheduler
    \/ ExecuteRead
    \/ ExecuteReplaceFails
    \/ Reconcile
    \/ RetryValidate

SpecTrace == InitTrace /\ [][NextTrace]_vars

\* ------------------------------------------------------------------------
\* Properties
\* ------------------------------------------------------------------------
\* The last call was validateBeforeExecution(c) and it returned.
Validated(c) ==
    /\ result.op = "validateBeforeExecution"
    /\ result.arg = c
    /\ ~result.threw

\* The step is a recordFailure on the fingerprint key.
FailureRecordedOn(key) ==
    /\ result'.op = "recordFailure"
    /\ \E d \in KeyedCalls, e \in ErrorInfos :
          result'.arg = d /\ KeyOf(d) = key /\ recordFailure(d, e)

\* C1: validateBeforeExecution(t, p) at time now returns allowed=false exactly
\* when, after its cleanup pass, the store holds a record for fingerprint(t, p)
\* that is unaddressed and younger than failureTimeoutMs; the result then
\* carries that record and its requiredActions.  A validation right after
\* recordFailure(t, p, e), at the same instant, is blocked with
\* e.requiredActions.
C1_BlockedExactlyInCooldown ==
    [][\A c \in KeyedCalls :
         (result'.op = "validateBeforeExecution" /\ result'.arg = c /\ validateBeforeExecution(c)) =>
           LET key == KeyOf(c)
               blocking == /\ key \in DOMAIN recentFailures'
                           /\ ~recentFailures'[key].wasAddressed
                           /\ now - recentFailures'[key].timestamp < failureTimeoutMs
           IN  /\ ~result'.threw
               /\ (result'.ret.allowed = FALSE) <=> blocking
               /\ blocking =>
                    /\ result'.ret.requiredActions = recentFailures'[key].requiredActions
                    /\ result'.ret.previousFailure = recentFailures'[key]
               /\ ( /\ result.op = "recordFailure"
                    /\ result.arg = c
                    /\ recentFailures[key].timestamp = now )
                  => /\ result'.ret.allowed = FALSE
                     /\ result'.ret.requiredActions =
                          recentFailures[key].errorInfo.requiredActions
      ]_vars

\* A validation was blocked and handed back the stored record with its hint.
C1_Witness ==
    \E c \in KeyedCalls :
        /\ Validated(c)
        /\ result.ret.allowed = FALSE
        /\ result.ret.requiredActions = <<"read file first">>
        /\ KeyOf(c) \in DOMAIN recentFailures
        /\ result.ret.previousFailure = recentFailures[KeyOf(c)]

\* C2: when the time since an unaddressed failure of (t, p) is at least
\* failureTimeoutMs and at most maxFailureAge, validateBeforeExecution(t, p)
\* returns allowed=true and leaves the record as it was (same timestamp,
\* wasAddressed still false).
C2_CooldownExpiry ==
    [][\A c \in KeyedCalls :
         LET key == KeyOf(c)
         IN  ( /\ result'.op = "validateBeforeExecution"
               /\ result'.arg = c
               /\ key \in DOMAIN recentFailures
               /\ ~recentFailures[key].wasAddressed
               /\ now - recentFailures[key].timestamp >= failureTimeoutMs
               /\ now - recentFailures[key].timestamp <= maxFailureAge
               /\ validateBeforeExecution(c) )
             => /\ result'.ret.allowed = TRUE
                /\ key \in DOMAIN recentFailures'
                /\ recentFailures'[key] = recentFailures[key]
      ]_vars

\* A validation was allowed by elapsed cooldown alone: the record is still
\* stored, unaddressed, and at least failureTimeoutMs old.
C2_Witness ==
    \E c \in KeyedCalls :
        /\ Validated(c)
        /\ result.ret.allowed = TRUE
        /\ KeyOf(c) \in DOMAIN recentFailures
        /\ ~recentFailures[KeyOf(c)].wasAddressed
        /\ now - recentFailures[KeyOf(c)].timestamp >= failureTimeoutMs

\* C3: recordSuccess(t, p) leaves no record for fingerprint(t, p); while no
\* record is there validateBeforeExecution(t, p) returns allowed=true, and
\* only a recordFailure on that fingerprint puts a record back.
C3_SuccessClearsFailure ==
    [][\A c \in KeyedCalls :
         LET key == KeyOf(c)
         IN  /\ (result'.op = "recordSuccess" /\ result'.arg = c /\ recordSuccess(c))
                  => key \notin DOMAIN recentFailures'
             /\ ( /\ result'.op = "validateBeforeExecution"
                  /\ result'.arg = c
                  /\ key \notin DOMAIN recentFailures
                  /\ validateBeforeExecution(c) )
                  => result'.ret.allowed = TRUE
             /\ (key \notin DOMAIN recentFailures /\ key \in DOMAIN recentFailures')
                  => FailureRecordedOn(key)
      ]_vars

\* recordSuccess removed a record, and the fingerprint is absent.
C3_Witness ==
    \E c \in KeyedCalls :
        /\ result.op = "recordSuccess"
        /\ result.arg = c
        /\ ~result.threw
        /\ result.effect.deleted
        /\ KeyOf(c) \notin DOMAIN recentFailures

\* C4: markFailureAddressed(t, p) on a stored record sets wasAddressed and
\* changes nothing else of it; a validation of (t, p) that finds its record
\* addressed returns allowed=true, inside the cooldown window too; and only a
\* recordFailure on that fingerprint makes the record unaddressed again.
C4_AddressalWaivesCooldown ==
    [][\A c \in KeyedCalls :
         LET key == KeyOf(c)
         IN  /\ ( /\ result'.op = "markFailureAddressed"
                  /\ result'.arg = c
                  /\ key \in DOMAIN recentFailures
                  /\ markFailureAddressed(c) )
                  => /\ key \in DOMAIN recentFailures'
                     /\ recentFailures'[key] =
                          [recentFailures[key] EXCEPT !.wasAddressed = TRUE]
             /\ ( /\ result'.op = "validateBeforeExecution"
                  /\ result'.arg = c
                  /\ key \in DOMAIN recentFailures'
                  /\ recentFailures'[key].wasAddressed
                  /\ validateBeforeExecution(c) )
                  => result'.ret.allowed = TRUE
             /\ ( /\ key \in DOMAIN recentFailures
                  /\ recentFailures[key].wasAddressed
                  /\ key \in DOMAIN recentFailures'
                  /\ ~recentFailures'[key].wasAddressed )
                  => FailureRecordedOn(key)
      ]_vars

\* A validation was allowed inside the cooldown window because the record,
\* still stored, is addressed.
C4_Witness ==
    \E c \in KeyedCalls :
        /\ Validated(c)
        /\ result.ret.allowed = TRUE
        /\ KeyOf(c) \in DOMAIN recentFailures
        /\ recentFailures[KeyOf(c)].wasAddressed
        /\ now - recentFailures[KeyOf(c)].timestamp < failureTimeoutMs

\* C5: markFailureAddressed(t, p) with no record for fingerprint(t, p) returns
\* normally and leaves the store as it was: no record is created and no other
\* record changes.
C5_AddressalOfAbsentIsNoOp ==
    [][\A c \in KeyedCalls :
         ( /\ result'.op = "markFailureAddressed"
           /\ result'.arg = c
           /\ KeyOf(c) \notin DOMAIN recentFailures
           /\ markFailureAddressed(c) )
           => /\ ~result'.threw
              /\ recentFailures' = recentFailures
      ]_vars

\* markFailureAddressed returned for an absent fingerprint while another
\* fingerprint has a record.
C5_Witness ==
    \E c \in KeyedCalls :
        /\ result.op = "markFailureAddressed"
        /\ result.arg = c
        /\ ~result.threw
        /\ KeyOf(c) \notin DOMAIN recentFailures
        /\ DOMAIN recentFailures # {}

\* C6: after validateBeforeExecution or getFailureStats at time now the store
\* holds exactly the records it held before that have now - timestamp <=
\* maxFailureAge, unchanged, addressed or not; totalFailures counts those
\* records only and a returned previousFailure is one of them.
C6_AgeBasedPurge ==
    [][( \/ ( /\ result'.op = "validateBeforeExecution"
               /\ \E c \in Calls : result'.arg = c /\ validateBeforeExecution(c) )
         \/ (result'.op = "getFailureStats" /\ getFailureStats) ) =>
         /\ DOMAIN recentFailures' =
              {k \in DOMAIN recentFailures :
                 now - recentFailures[k].timestamp <= maxFailureAge}
         /\ \A k \in DOMAIN recentFailures' : recentFailures'[k] = recentFailures[k]
         /\ result'.op = "getFailureStats" =>
              result'.ret.totalFailures =
                Cardinality({k \in DOMAIN recentFailures :
                               now - recentFailures[k].timestamp <= maxFailureAge})
         /\ (result'.op = "validateBeforeExecution" /\ ~result'.threw
               /\ result'.ret.allowed = FALSE) =>
              now - result'.ret.previousFailure.timestamp <= maxFailureAge
      ]_vars

\* The cleanup pass of a statistics call purged an addressed record and kept
\* a record whose age is exactly maxFailureAge.
C6_Witness ==
    /\ result.op = "getFailureStats"
    /\ result.effect.purged > 0
    /\ result.ret.totalFailures = 1
    /\ \E k \in DOMAIN recentFailures :
          now - recentFailures[k].timestamp = maxFailureAge

\* The paths of the successful read_file entries of a trace
SuccessfulReads(tr) ==
    {tr[i].params.kv[1][2].s :
       i \in {j \in 1..Len(tr) :
                /\ tr[j].name = "read_file"
                /\ tr[j].success
                /\ tr[j].params.tag = "obj"
                /\ Len(tr[j].params.kv) = 1
                /\ tr[j].params.kv[1][1] = "file_path"
                /\ tr[j].params.kv[1][2].tag = "str"
                /\ tr[j].params.kv[1][2].s # ""}}

IsReplaceKey(k) == \E c \in KeyedCalls : c.name = "replace" /\ KeyOf(c) = k

\* What the reconciliation pass does to the unaddressed replace failures
\* whose code is in codes: those on a path the trace read successfully become
\* addressed, and no record on another path changes its flag.
ReconcilesCodes(codes) ==
    \A tr \in Traces :
      ( /\ result'.op = "detectDiagnosticActions"
        /\ result'.arg = tr
        /\ detectDiagnosticActions(tr) ) =>
        /\ \A k \in DOMAIN recentFailures :
             ( /\ IsReplaceKey(k)
               /\ ~recentFailures[k].wasAddressed
               /\ recentFailures[k].errorInfo.code \in codes
               /\ recentFailures[k].errorInfo.context.filePath \in SuccessfulReads(tr) )
             => (k \in DOMAIN recentFailures' /\ recentFailures'[k].wasAddressed)
        /\ \A k \in DOMAIN recentFailures :
             recentFailures[k].errorInfo.context.filePath \notin SuccessfulReads(tr)
             => (k \in DOMAIN recentFailures' /\ recentFailures'[k] = recentFailures[k])

\* C7 (as claimed): a successful read_file of P in the trace marks addressed
\* the unaddressed replace failure with code "not_found" and
\* context.filePath = P, and leaves a record on a different path unaddressed.
C7_AsClaimed == [][ReconcilesCodes({"not_found"})]_vars

\* C7 (amended): a successful read_file of P in the trace marks addressed
\* the unaddressed replace failure with code EDIT_TEXT_NOT_FOUND or
\* EDIT_MULTIPLE_MATCHES and context.filePath = P, and leaves a record on a
\* different path as it was.
C7_Reconciliation ==
    [][ReconcilesCodes({"EDIT_TEXT_NOT_FOUND", "EDIT_MULTIPLE_MATCHES"})]_vars

\* A pass that read a.txt marked exactly one record, the EDIT_TEXT_NOT_FOUND
\* failure on a.txt, while the failure on b.txt is still unaddressed.
C7_Witness ==
    /\ result.op = "detectDiagnosticActions"
    /\ "a.txt" \in SuccessfulReads(result.arg)
    /\ result.effect.marked = 1
    /\ \E k1 \in DOMAIN recentFailures, k2 \in DOMAIN recentFailures :
          /\ recentFailures[k1].errorInfo.code = "EDIT_TEXT_NOT_FOUND"
          /\ recentFailures[k1].errorInfo.context.filePath = "a.txt"
          /\ recentFailures[k1].wasAddressed
          /\ recentFailures[k2].errorInfo.context.filePath = "b.txt"
          /\ ~recentFailures[k2].wasAddressed

\* Two parameter structures are logically equal: the same primitive, arrays
\* equal element by element, objects with the same keys and logically equal
\* values whatever the order of the keys.
RECURSIVE LogicalEq(_, _)
LogicalEq(v, w) ==
    /\ v.tag = w.tag
    /\ CASE v.tag = "num" -> v.n = w.n
         [] v.tag = "str" -> v.s = w.s
         [] v.tag = "arr" ->
              /\ Len(v.items) = Len(w.items)
              /\ \A i \in 1..Len(v.items) : LogicalEq(v.items[i], w.items[i])
         [] v.tag = "obj" ->
              /\ SeqToSet(OwnKeys(v)) = SeqToSet(OwnKeys(w))
              /\ \A k \in SeqToSet(OwnKeys(v)) :
                    LogicalEq(GetProp(v.kv, k), GetProp(w.kv, k))
         [] OTHER -> TRUE

\* Both fingerprints of the pair have been computed.
Probed == probe.stage = "done" /\ ~probe.ka.threw /\ ~probe.kb.threw

SameInvocation == probe.a.name = probe.b.name /\ LogicalEq(probe.a.params, probe.b.params)

\* C8: logically equal parameters under the same tool name get the same
\* fingerprint whatever the order of their object keys, so a failure recorded
\* for one property order blocks the immediate retry issued in another.
C8_FingerprintStability ==
    (Probed /\ SameInvocation) =>
       /\ probe.ka.key = probe.kb.key
       /\ (Validated(probe.b) /\ probe.ka.key \in DOMAIN recentFailures)
            => result.ret.allowed = FALSE

\* A retry written with another property order was blocked by the failure
\* of its logically equal invocation.
C8_Witness ==
    /\ Probed /\ SameInvocation
    /\ probe.a.params # probe.b.params
    /\ Validated(probe.b)
    /\ probe.ka.key \in DOMAIN recentFailures
    /\ result.ret.allowed = FALSE

\* C9 (as claimed): invocations that differ in tool name or, at any depth, in
\* a primitive value, a key set or the order of array elements get different
\* fingerprints, and a failure of one never blocks the other.
C9_AsClaimed ==
    (Probed /\ ~SameInvocation) =>
       /\ probe.ka.key # probe.kb.key
       /\ Validated(probe.b) => result.ret.allowed = TRUE

\* C10 (as claimed): validateBeforeExecution, recordFailure, recordSuccess and
\* markFailureAddressed return normally for every parameters value, absent
\* parameters included.
C10_AsClaimed ==
    result.op \in {"validateBeforeExecution", "recordFailure",
                   "recordSuccess", "markFailureAddressed"}
      => ~result.threw

\* C11 (as claimed): two interleaved dispatches retrying the same failed call
\* are never both admitted.
C11_AsClaimed ==
    ~ ( /\ scheduler.mode = "dispatch"
        /\ KeyOf(DispatchCall) \in DOMAIN recentFailures
        /\ \A d \in Dispatches : /\ scheduler.retried[d]
                                  /\ scheduler.pc[d] = "admitted" )

\* The step is a recordFailure that returned, on the fingerprint key.
RecordedFailureOn(key) ==
    /\ result'.op = "recordFailure"
    /\ ~result'.threw
    /\ KeyOf(result'.arg) = key

\* C12: a record's wasAddressed changes from false to true only in a
\* markFailureAddressed or detectDiagnosticActions step, and a fingerprint
\* whose record was addressed has an unaddressed record after a step only when
\* the step is a recordFailure on that fingerprint; no validation, statistics,
\* recordSuccess or cleanup sets it back.
C12_WasAddressedMonotone ==
    [][\A k \in DOMAIN recentFailures :
         k \in DOMAIN recentFailures' =>
           /\ (recentFailures[k].wasAddressed /\ ~recentFailures'[k].wasAddressed)
                => RecordedFailureOn(k)
           /\ (~recentFailures[k].wasAddressed /\ recentFailures'[k].wasAddressed)
                => /\ result'.op \in {"markFailureAddressed", "detectDiagnosticActions"}
                   /\ recentFailures'[k] = [recentFailures[k] EXCEPT !.wasAddressed = TRUE]
      ]_vars

\* A recordFailure has just replaced an addressed record by an unaddressed
\* one while another fingerprint's record stays addressed.
C12_Witness ==
    /\ result.op = "recordFailure"
    /\ ~result.threw
    /\ result.effect.replaced = "addressed"
    /\ ~recentFailures[KeyOf(result.arg)].wasAddressed
    /\ \E k \in DOMAIN recentFailures : recentFailures[k].wasAddressed

\* What validateBeforeExecution(c) would answer on the store m at the current
\* time: its cleanup pass, then its decision.
WouldAllow(m, c) ==
    Decide(cleanupOldFailures(m, now), KeyOf(c), now).allowed

\* The step is a detectDiagnosticActions over the trace tr.
DetectedOn(tr) ==
    /\ result'.op = "detectDiagnosticActions"
    /\ result'.arg = tr
    /\ detectDiagnosticActions(tr)

\* C13: detectDiagnosticActions removes no record and creates none, changes
\* no record's timestamp or errorInfo and never turns wasAddressed from true
\* to false; an invocation that validateBeforeExecution would allow before the
\* pass is still allowed right after it, at the same time.
C13_ReconciliationOnlyRelaxes ==
    [][(\E tr \in Traces : DetectedOn(tr)) =>
         /\ DOMAIN recentFailures' = DOMAIN recentFailures
         /\ \A k \in DOMAIN recentFailures :
              /\ recentFailures'[k].timestamp = recentFailures[k].timestamp
              /\ recentFailures'[k].errorInfo = recentFailures[k].errorInfo
              /\ recentFailures[k].wasAddressed => recentFailures'[k].wasAddressed
         /\ \A c \in KeyedCalls :
              WouldAllow(recentFailures, c) => WouldAllow(recentFailures', c)
      ]_vars

\* A pass has just marked a record that is older than the instant of the
\* pass and still inside its cooldown, next to a record it left unaddressed.
C13_Witness ==
    /\ result.op = "detectDiagnosticActions"
    /\ result.effect.marked >= 1
    /\ \E k \in DOMAIN recentFailures :
          /\ recentFailures[k].wasAddressed
          /\ recentFailures[k].timestamp < now
          /\ now - recentFailures[k].timestamp < failureTimeoutMs
    /\ \E k \in DOMAIN recentFailures : ~recentFailures[k].wasAddressed

\* C14: getFailureStats returns totalFailures = the number of records with
\* now - timestamp <= maxFailureAge and activeFailures = the number of those
\* that are unaddressed with now - timestamp < failureTimeoutMs; activeFailures
\* is at most totalFailures and equals the number of tracked fingerprints that
\* validateBeforeExecution would block at the same time; addressed records
\* count in totalFailures.
C14_FailureStats ==
    [][(result'.op = "getFailureStats" /\ getFailureStats) =>
         LET kept == {k \in DOMAIN recentFailures :
                        now - recentFailures[k].timestamp <= maxFailureAge}
             active == {k \in kept :
                          /\ ~recentFailures[k].wasAddressed
                          /\ now - recentFailures[k].timestamp < failureTimeoutMs}
             blocked == {k \in DOMAIN recentFailures :
                           ~Decide(cleanupOldFailures(recentFailures, now), k, now).allowed}
         IN  /\ result'.ret.totalFailures = Cardinality(kept)
             /\ result'.ret.activeFailures = Cardinality(active)
             /\ result'.ret.activeFailures <= result'.ret.totalFailures
             /\ result'.ret.activeFailures = Cardinality(blocked)
             /\ \A k \in kept : recentFailures[k].wasAddressed =>
                                  k \in DOMAIN recentFailures'
      ]_vars

\* Statistics over an addressed record and an active one.
C14_Witness ==
    /\ result.op = "getFailureStats"
    /\ result.ret.totalFailures = 2
    /\ result.ret.activeFailures = 1
    /\ \E k \in DOMAIN recentFailures :
          /\ recentFailures[k].wasAddressed
          /\ now - recentFailures[k].timestamp < failureTimeoutMs

\* C15: recordFailure(t, p, e) overwrites unconditionally: afterwards the
\* store holds for fingerprint(t, p) the one record with timestamp = now,
\* errorInfo = e and wasAddressed = false, whatever record was there before;
\* the cooldown counts from this failure and the invocation is blocked again,
\* also when addressal or elapsed cooldown had made it allowed.
C15_RecordFailureOverwrites ==
    [][\A c \in KeyedCalls, e \in ErrorInfos :
         (result'.op = "recordFailure" /\ result'.arg = c /\ recordFailure(c, e)) =>
           LET key == KeyOf(c)
           IN  /\ key \in DOMAIN recentFailures'
               /\ recentFailures'[key] = [timestamp |-> now,
                                          errorInfo |-> e,
                                          requiredActions |-> e.requiredActions,
                                          wasAddressed |-> FALSE]
               /\ ~WouldAllow(recentFailures', c)
               /\ Decide(cleanupOldFailures(recentFailures', now), key, now).reasonSeconds = 0
      ]_vars

\* A recordFailure has just overwritten a record whose cooldown had elapsed;
\* the invocation was allowed before the step.
C15_Witness ==
    /\ result.op = "recordFailure"
    /\ ~result.threw
    /\ result.effect.replaced = "cooled"
    /\ recentFailures[KeyOf(result.arg)].timestamp = now
    /\ now > 0

\* The step is a recordFailure, recordSuccess or markFailureAddressed of c.
MutatedOn(c) ==
    /\ result'.op \in {"recordFailure", "recordSuccess", "markFailureAddressed"}
    /\ result'.arg = c
    /\ \/ \E e \in ErrorInfos : recordFailure(c, e)
       \/ recordSuccess(c)
       \/ markFailureAddressed(c)

\* C16: recordFailure, recordSuccess and markFailureAddressed on fingerprint
\* k leave the presence and the record of every other fingerprint unchanged,
\* and with it what validateBeforeExecution answers for the other fingerprint.
C16_CrossFingerprintIndependence ==
    [][\A c \in KeyedCalls :
         MutatedOn(c) =>
           /\ \A k \in (DOMAIN recentFailures \cup DOMAIN recentFailures') \ {KeyOf(c)} :
                /\ k \in DOMAIN recentFailures
                /\ k \in DOMAIN recentFailures'
                /\ recentFailures'[k] = recentFailures[k]
           /\ \A d \in KeyedCalls :
                KeyOf(d) # KeyOf(c) =>
                  Decide(cleanupOldFailures(recentFailures', now), KeyOf(d), now)
                    = Decide(cleanupOldFailures(recentFailures, now), KeyOf(d), now)
      ]_vars

\* A recordSuccess has just deleted a record while another fingerprint's
\* record keeps blocking.
C16_Witness ==
    /\ result.op = "recordSuccess"
    /\ ~result.threw
    /\ result.effect.deleted
    /\ \E d \in KeyedCalls :
          /\ KeyOf(d) # KeyOf(result.arg)
          /\ KeyOf(d) \in DOMAIN recentFailures
          /\ ~WouldAllow(recentFailures, d)

\* C17: with the clock advancing and no further recordFailure on the
\* fingerprint, validateBeforeExecution eventually answers allowed=true and
\* goes on doing so, no other operation being needed; and once the elapsed
\* time exceeds maxFailureAge the next validation or statistics call leaves
\* the fingerprint absent.
C17_BlockEventuallyLifted ==
    /\ <>[]WouldAllow(recentFailures, LiveCall)
    /\ [][(result'.op = "validateBeforeExecution" /\ validateBeforeExecution(LiveCall))
            => result'.ret.allowed = WouldAllow(recentFailures, LiveCall)]_vars
    /\ [][( /\ KeyOf(LiveCall) \in DOMAIN recentFailures
            /\ now - recentFailures[KeyOf(LiveCall)].timestamp > maxFailureAge
            /\ \/ result'.op = "validateBeforeExecution" /\ validateBeforeExecution(LiveCall)
               \/ result'.op = "getFailureStats" /\ getFailureStats )
            => KeyOf(LiveCall) \notin DOMAIN recentFailures']_vars

\* A validation has just answered allowed=true on a record that is still
\* stored, unaddressed, with its cooldown elapsed.
C17_Witness ==
    /\ Validated(LiveCall)
    /\ result.ret.allowed
    /\ KeyOf(LiveCall) \in DOMAIN recentFailures
    /\ ~recentFailures[KeyOf(LiveCall)].wasAddressed
    /\ now - recentFailures[KeyOf(LiveCall)].timestamp >= failureTimeoutMs

\* The trace holds nothing but failed entries, entries of tools that are not
\* diagnostic, and successful list_directory, grep and glob entries.
NoSuccessfulRead(tr) ==
    \A i \in 1..Len(tr) :
       \/ ~tr[i].success
       \/ tr[i].name \notin diagnosticTools
       \/ tr[i].name \in {"list_directory", "grep", "glob"}

\* C18: detectDiagnosticActions changes a record only when the trace has a
\* successful read_file entry with a non-empty params.file_path P, the record
\* belongs to tool replace, its errorInfo.context.filePath is P and its code is
\* EDIT_TEXT_NOT_FOUND or EDIT_MULTIPLE_MATCHES; a trace of failed entries,
\* non-diagnostic tools and successful list_directory, grep and glob entries
\* leaves every record unchanged.
C18_ReconciliationConditions ==
    [][\A tr \in DiagTraces :
         DetectedOn(tr) =>
           /\ DOMAIN recentFailures' = DOMAIN recentFailures
           /\ \A k \in DOMAIN recentFailures :
                recentFailures'[k] # recentFailures[k] =>
                  /\ recentFailures[k].errorInfo.context.filePath \in SuccessfulReads(tr)
                  /\ \E c \in DiagCalls : c.name = "replace" /\ KeyOf(c) = k
                  /\ recentFailures[k].errorInfo.code
                       \in {"EDIT_TEXT_NOT_FOUND", "EDIT_MULTIPLE_MATCHES"}
           /\ NoSuccessfulRead(tr) => recentFailures' = recentFailures
      ]_vars

\* A pass over a successful read of a.txt has just marked the replace
\* failure on a.txt and left the write failure on a.txt, same code, as it was.
C18_Witness ==
    /\ result.op = "detectDiagnosticActions"
    /\ result.effect.marked = 1
    /\ "a.txt" \in SuccessfulReads(result.arg)
    /\ KeyOf(Call("replace", ParamsA1)) \in DOMAIN recentFailures
    /\ recentFailures[KeyOf(Call("replace", ParamsA1))].wasAddressed
    /\ KeyOf(Call("write", ParamsA1)) \in DOMAIN recentFailures
    /\ ~recentFailures[KeyOf(Call("write", ParamsA1))].wasAddressed
    /\ recentFailures[KeyOf(Call("write", ParamsA1))].errorInfo
         = ErrorInfo("EDIT_TEXT_NOT_FOUND", "a.txt", <<"read file first">>)

\* C20 (as claimed): the reconciliation pass marks the failure of the edit
\* on a.txt addressed only when a.txt was read successfully after the failure
\* was recorded; with the only read before the failure the record stays
\* unaddressed and the retry inside the cooldown stays blocked.
C20_AsClaimed ==
    (scheduler.mode = "trace" /\ ~scheduler.readAfter) =>
       /\ KeyOf(TraceCall) \in DOMAIN recentFailures
            => ~recentFailures[KeyOf(TraceCall)].wasAddressed
       /\ ( /\ Validated(TraceCall)
            /\ KeyOf(TraceCall) \in DOMAIN recentFailures
            /\ now - recentFailures[KeyOf(TraceCall)].timestamp < failureTimeoutMs )
          => ~result.ret.allowed

\* C19 (as claimed): whatever the two windows, also with maxFailureAge below
\* failureTimeoutMs, a validation of an invocation whose failure is stored,
\* unaddressed and younger than failureTimeoutMs is not allowed.
C19_AsClaimed ==
    [][\A c \in KeyedCalls :
         ( /\ result'.op = "validateBeforeExecution"
           /\ result'.arg = c
           /\ KeyOf(c) \in DOMAIN recentFailures
           /\ ~recentFailures[KeyOf(c)].wasAddressed
           /\ now - recentFailures[KeyOf(c)].timestamp < failureTimeoutMs
           /\ validateBeforeExecution(c) )
         => ~result'.ret.allowed
      ]_vars

====
